---- MODULE Spec2Model ----
(***************************************************************************)
(* comapeo-cloud-cli: the export-geojson and get-attachment commands of    *)
(* src/src/index.ts as state machines.                                     *)
(*                                                                         *)
(* Encoding of values                                                      *)
(*   - a URL string is its list of "/"-separated segments, url.split("/"): *)
(*     "http://h/projects/p" is <<"http:", "", "h", "projects", "p">>;     *)
(*     the encoding is one-to-one, a segment never holds a "/".            *)
(*   - an optional value (undefined | v) is <<>> | <<v>>.                  *)
(*   - the null a download task returns on failure is Null.                *)
(*   - the bytes the service returns for an attachment path are the tuple  *)
(*     <<"bytes", driveId, type, name>>; a truncated file is Partial, a    *)
(*     file left by an earlier run is Stale, a file holding bytes of more  *)
(*     than one body (two writeFile calls on one path at once) is Mixed.   *)
(***************************************************************************)
EXTENDS Naturals, Sequences, FiniteSets, TLC

\* ------------------------------------------------------------ bounds
MaxTasks == 2
MaxSegs == 8

\* ------------------------------------------------------------ values
Null == "null"
Partial == <<"partial">>
Stale == <<"stale">>
Mixed == <<"mixed">>
\* A truncated comapeo_data.geojson: a prefix of the JSON text, not a document.
PartialJson == [truncated |-> TRUE]
Bytes(driveId, type, name) == <<"bytes", driveId, type, name>>

Some(v) == <<v>>
None == <<>>

\* JavaScript truthiness of an optional string: undefined and "" are falsy.
Truthy(opt) == opt # <<>> /\ opt[1] # ""

\* ------------------------------------------------------------ pure functions

\* Variant of getOutputFilename: the extension is appended to the explicit
\* output as well.
getOutputFilenameAppendsExt(name, type, providedOutput) ==
    LET extension == IF type = "photo" THEN ".jpg" ELSE ".mp3"
    IN  (IF Truthy(providedOutput) THEN providedOutput[1] ELSE name) \o extension

\* index.ts 29-36
getOutputFilename(name, type, providedOutput) ==
    LET extension == IF type = "photo" THEN ".jpg" ELSE ".mp3"
    IN  IF Truthy(providedOutput) THEN providedOutput[1] ELSE name \o extension

\* The start positions (segment indexes of "projects") at which the pattern
\*   /\/projects\/([^\/]+)\/attachments\/([^\/]+)\/([^\/]+)\/([^\/]+)$/
\* matches: "/projects/" needs a "/" before it, so a segment before it (k >= 2)
\* and the whole segment equal to "projects"; [^\/]+ is a non-empty segment;
\* $ makes the fourth group the last segment.
\* Variant of UrlMatchAt: the pattern with [^\/]* for [^\/]+ (empty segments match).
UrlMatchAtStar(url, k) ==
    /\ k >= 2
    /\ url[k] = "projects"
    /\ k + 2 <= Len(url) /\ url[k + 2] = "attachments"
    /\ k + 5 = Len(url)

UrlMatchAt(url, k) ==
    /\ k >= 2
    /\ k + 5 <= Len(url)
    /\ url[k] = "projects"
    /\ url[k + 1] # ""
    /\ url[k + 2] = "attachments"
    /\ url[k + 3] # ""
    /\ url[k + 4] # ""
    /\ url[k + 5] # ""
    /\ k + 5 = Len(url)

\* index.ts 57-66: None when it throws "Invalid attachment URL format".
getUrlComponents(url) ==
    LET starts == {k \in 1..Len(url) : UrlMatchAt(url, k)}
    IN  IF starts = {}
        THEN None
        ELSE LET k == CHOOSE i \in starts : \A j \in starts : i <= j
             IN  Some([projectId |-> url[k + 1], driveId |-> url[k + 3],
                       type |-> url[k + 4], name |-> url[k + 5]])

\* ------------------------------------------------------------ inputs

UrlPhotoA == <<"http:", "", "host", "projects", "p1", "attachments", "d1", "photo", "n1">>
UrlPhotoB == <<"http:", "", "host", "projects", "p2", "attachments", "d2", "photo", "n1">>
UrlAudio == <<"http:", "", "host", "projects", "p1", "attachments", "d1", "audio", "n1">>
UrlBroken == <<"http:", "", "host", "projects", "p1", "attachments", "d1", "photo">>

\* Attachment URLs the service may hand out: two photos deriving the same
\* filename from different drives, one of them naming another project than
\* the one exported, an audio item, and a broken reference.
UrlPool == {UrlPhotoA, UrlPhotoB, UrlAudio, UrlBroken}

ObsMeta ==
    { [docId |-> "a", createdAt |-> "c1", updatedAt |-> "u1", lat |-> 1, lon |-> 2],
      [docId |-> "b", createdAt |-> "c2", updatedAt |-> "u2", lat |-> 3, lon |-> 4] }

SeqsUpTo(S, n) == UNION {[1..k -> S] : k \in 0..n}

\* ObservationData, index.ts 166-180 (the fields the export reads), with at most
\* n attachments.
Observations(metas, n) ==
    { [docId |-> m.docId, createdAt |-> m.createdAt, updatedAt |-> m.updatedAt,
       lat |-> m.lat, lon |-> m.lon, attachments |-> atts] :
        m \in metas, atts \in SeqsUpTo([url : UrlPool], n) }

\* The observation lists over the documents `metas`, each document at most once
\* (a docId identifies one observation), with at most t attachments in all.
RECURSIVE ObsListsOf(_, _)
ObsListsOf(metas, t) ==
    {<<>>} \cup
    UNION { { <<ob>> \o rest :
                rest \in ObsListsOf({m \in metas : m.docId # ob.docId},
                                    t - Len(ob.attachments)) } :
            ob \in Observations(metas, t) }

ObsLists == ObsListsOf(ObsMeta, MaxTasks)

\* The working directory before the run: tmp_export absent, or left behind by
\* an earlier run with a file in tmp_export/images.
WorkDirs ==
    { [tmp |-> FALSE, stale |-> {}],
      [tmp |-> TRUE, stale |-> {"n1.jpg"}] }

\* -o option of export-geojson: absent, a path outside tmp_export, a path inside.
OutputOptions == {None, Some("out.zip"), Some("tmp_export/out.zip")}

\* index.ts 313: the output paths rm(tmpDir, {recursive: true}) removes with
\* the directory, those that lie inside tmp_export.
InTmpDir(path) == path \in {"tmp_export/out.zip"}

\* --project-id option of export-geojson: the project the attachment URLs of
\* UrlPool name, but for UrlPhotoB.
ProjectIds == {"p1"}

\* ------------------------------------------------------------ state

VARIABLES
    cmd,            \* the command being run: "export" | "get"
    observations,   \* export: the list the service returns (response.data.data)
    wd0,            \* export: the working directory before the run
    pc,             \* the await the command is suspended at, "done" or "failed"
    fatal,          \* the error handed to handleError, when there is one
    tasks,          \* export: tasks[o][a], the download task of attachment a of observation o
    features,       \* export: features[o], the Feature of observation o once assembled
    tmpExists,      \* tmp_export exists
    imagesExists,   \* tmp_export/images exists
    images,         \* tmp_export/images: filename -> content
    geojsonFile,    \* tmp_export/comapeo_data.geojson, when it exists
    zip,            \* the JSZip object: [geojson, images]
    outputPath,     \* const outputPath, once computed
    archive,        \* the file at outputPath as this run wrote it
    reported,       \* the path of the completion message, once printed
    archiveExists,  \* the file this run wrote at outputPath is on disk
    projectId,      \* export: the --project-id option
    obsRequests,    \* export: the observation-list requests issued, as paths
    fetches,        \* export: fetches[o][a], the paths task (o, a) requested
    writes,         \* export: writes[o][a], how far the writeFile of task (o, a) has got
    imageFiles,     \* export: the entries of readdir(images) not yet read into the zip
    outputOption,   \* get: the -o option, once read
    url,            \* get: the --url option
    components,     \* get: what getUrlComponents returned
    request,        \* get: the path requested from the service
    saved           \* get: the file written, [filename, data]

vars == <<cmd, observations, wd0, pc, fatal, tasks, features, tmpExists, imagesExists,
          images, geojsonFile, zip, outputPath, archive, reported, archiveExists,
          projectId, obsRequests, fetches, writes, imageFiles, outputOption, url, components, request, saved>>

fsVars == <<tmpExists, imagesExists, images, geojsonFile>>
zipVars == <<zip, imageFiles, outputPath, archive, reported, archiveExists>>
getVars == <<url, components, request, saved, outputOption>>
inputVars == <<cmd, observations, wd0, projectId>>
reqVars == <<obsRequests, fetches>>

EmptyDir == [f \in {} |-> Stale]
EmptyZip == [geojson |-> None, images |-> EmptyDir]
NoArchive == [written |-> "no", zip |-> EmptyZip]

\* dir with file f holding content c
Put(dir, f, c) == [x \in DOMAIN dir \cup {f} |-> IF x = f THEN c ELSE dir[x]]

\* ------------------------------------------------------------ error path

\* The errors a step may throw, named by the call that throws them.
EnvError == "missing configuration"
ObsError == "observation request failed"
MkdirTmpError == "mkdir tmp_export failed"
MkdirImagesError == "mkdir tmp_export/images failed"
InvalidUrl == "Invalid attachment URL format"
FetchError == "attachment request failed"
WriteError == "writing the attachment failed"
GeojsonError == "writing the GeoJSON failed"
ZipError == "building the archive failed"
ArchiveError == "writing the archive failed"
RmError == "rm tmp_export failed"

\* helpers.js is not part of the sources at hand. By the error-handling design
\* (fatal errors "terminate the run", the process "exits with a non-zero
\* status") handleError ends the process: no step of the run follows it.
HandleError(error) == "failed"

\* validateEnv of helpers.js, likewise: missing connection configuration is a
\* fatal error, so it throws unless both the server URL and the token are set.
validateEnv(configured) == IF configured THEN None ELSE Some(EnvError)

\* index.ts 318-320: catch (error) { handleError(error); }
Catch(error) ==
    /\ pc' = HandleError(error)
    /\ fatal' = Some(error)

\* ------------------------------------------------------------ export: download tasks

Pending == "pending"

\* index.ts 51: the path downloadAttachment requests, as its segments
AttachmentPath(project, driveId, type, name, variant) ==
    <<"", "projects", project, "attachments", driveId, type, name \o variant>>

\* index.ts 205: the path of the observation-list request
ObservationsPath(project) == <<"", "projects", project, "observations">>

\* index.ts 236-244: the request a task issues: downloadAttachment is called
\* with options.projectId, the driveId, type and name of the URL, and "" for
\* the variant.
TaskRequest(project, att) ==
    LET c == getUrlComponents(att.url)[1]
    IN  AttachmentPath(project, c.driveId, c.type, c.name, "")


\* index.ts 226-236, the task's synchronous part: getUrlComponents throws (the
\* async callback's promise is rejected), or the request is issued.
StartTask(att) ==
    IF getUrlComponents(att.url) = None
    THEN [st |-> "rejected", ret |-> Pending, err |-> InvalidUrl]
    ELSE [st |-> "fetching", ret |-> Pending, err |-> ""]

\* index.ts 228-231
Filename(att) ==
    LET c == getUrlComponents(att.url)[1]
    IN  getOutputFilename(c.name, c.type, None)

\* index.ts 236-244 with 38-55: the body of the response to
\* GET /projects/{id}/attachments/{driveId}/{type}/{name}
PhotoData(att) ==
    LET c == getUrlComponents(att.url)[1]
    IN  Bytes(c.driveId, c.type, c.name)

\* index.ts 249-252: return filename
Succeeded(att) == [st |-> "done", ret |-> Filename(att), err |-> ""]

\* Variant of Caught: the task without its try/catch, the error rejects its promise.
CaughtRethrown(error) == [st |-> "rejected", ret |-> Pending, err |-> error]

\* index.ts 253-258: catch (error) { console.error(...); return null; }
Caught(error) == [st |-> "failed", ret |-> Null, err |-> error]

Settled(t) == t.st \in {"done", "failed"}
RowSettled(row) == \A a \in 1..Len(row) : Settled(row[a])
TaskIds == (1..Cardinality(ObsMeta)) \X (1..MaxTasks)
IsTask(o, a) == o \in 1..Len(observations) /\ a \in 1..Len(observations[o].attachments)

\* index.ts 223-260: what await Promise.all(...) yields, in attachment order
PhotoFiles(row) == [a \in 1..Len(row) |-> row[a].ret]

\* Variant of FilterNotNull: photoFiles used unfiltered.
FilterNothing(files) == files

\* index.ts 273: photoFiles.filter((f) => f !== null)
FilterNotNull(files) == SelectSeq(files, LAMBDA f : f # Null)

\* Variant of Feature: coordinates in [lat, lon] order.
FeatureLatLon(obs, row) ==
    [type |-> "Feature",
     geometry |-> [type |-> "Point", coordinates |-> <<obs.lat, obs.lon>>],
     id |-> obs.docId,
     properties |-> [created |-> obs.createdAt,
                     modified |-> obs.updatedAt,
                     version |-> obs.docId \o "@1",
                     photos |-> FilterNotNull(PhotoFiles(row))]]

\* index.ts 262-275
Feature(obs, row) ==
    [type |-> "Feature",
     geometry |-> [type |-> "Point", coordinates |-> <<obs.lon, obs.lat>>],
     id |-> obs.docId,
     properties |-> [created |-> obs.createdAt,
                     modified |-> obs.updatedAt,
                     version |-> obs.docId \o "@1",
                     photos |-> FilterNotNull(PhotoFiles(row))]]

\* Variant of Assemble: each Feature is pushed to the list when its observation's
\* downloads have settled, so the list is in completion order.
AssembleInCompletionOrder(newTasks) ==
    LET new == {o \in 1..Len(observations) :
                   /\ RowSettled(newTasks[o])
                   /\ pc = "mkdirImages" \/ ~RowSettled(tasks[o])}
        filled == Cardinality({o \in 1..Len(features) : features[o] # None})
        nth(k) == CHOOSE o \in new : Cardinality({x \in new : x < o}) = k - 1
    IN  [i \in 1..Len(observations) |->
            IF i <= filled THEN features[i]
            ELSE IF i <= filled + Cardinality(new)
            THEN Some(Feature(observations[nth(i - filled)], newTasks[nth(i - filled)]))
            ELSE None]

\* index.ts 219-277: the outer callback of observation o resumes once its inner
\* Promise.all is fulfilled and returns the Feature.
Assemble(newTasks) ==
    [o \in 1..Len(observations) |->
        IF RowSettled(newTasks[o])
        THEN Some(Feature(observations[o], newTasks[o]))
        ELSE None]

Rejected(newTasks) ==
    {id \in TaskIds : /\ id[1] \in 1..Len(newTasks)
                      /\ id[2] \in 1..Len(newTasks[id[1]])
                      /\ newTasks[id[1]][id[2]].st = "rejected"}

\* The promise reactions that run once a task's callback has returned or thrown
\* (index.ts 219-285, 318): a rejected task rejects both Promise.all at once and
\* the command's catch runs; otherwise every observation whose tasks have all
\* settled yields its Feature, and when all have, writeFile of the GeoJSON starts.
Continue(newTasks) ==
    /\ tasks' = newTasks
    /\ features' = Assemble(newTasks)
    /\ IF Rejected(newTasks) # {}
       THEN LET id == CHOOSE r \in Rejected(newTasks) : TRUE
            IN  Catch(newTasks[id[1]][id[2]].err)
       ELSE /\ pc' = IF \A o \in 1..Len(observations) : RowSettled(newTasks[o])
                     THEN "writeGeojson" ELSE "downloading"
            /\ UNCHANGED fatal

Settle(o, a, t) == Continue([tasks EXCEPT ![o][a] = t])

\* ------------------------------------------------------------ export: steps

\* index.ts 161-206: validateEnv, then the observation-list request is issued.
ValidateEnv ==
    /\ cmd = "export" /\ pc = "validateEnv"
    /\ \E configured \in BOOLEAN :
        IF validateEnv(configured) = None
        THEN /\ pc' = "fetchObservations"
             /\ obsRequests' = Append(obsRequests, ObservationsPath(projectId))
             /\ UNCHANGED fatal
        ELSE Catch(validateEnv(configured)[1]) /\ UNCHANGED obsRequests
    /\ UNCHANGED <<inputVars, tasks, features, fsVars, zipVars, getVars, fetches, writes>>

\* Variant of FetchObservations: the scratch directory is created before the
\* observation list is requested.
FetchObservationsAfterMkdir ==
    /\ cmd = "export" /\ pc = "fetchObservations"
    /\ tmpExists' = TRUE
    /\ \E ok \in BOOLEAN :
        IF ok
        THEN pc' = "mkdirTmp" /\ UNCHANGED fatal
        ELSE Catch(ObsError)
    /\ UNCHANGED <<inputVars, tasks, features, imagesExists, images, geojsonFile,
                   zipVars, getVars, reqVars, writes>>

\* index.ts 200-213: the observation-list request; on success the run goes on
\* to mkdir(tmpDir).
FetchObservations ==
    /\ cmd = "export" /\ pc = "fetchObservations"
    /\ \E ok \in BOOLEAN :
        IF ok
        THEN pc' = "mkdirTmp" /\ UNCHANGED fatal
        ELSE Catch(ObsError)
    /\ UNCHANGED <<inputVars, tasks, features, fsVars, zipVars, getVars, reqVars, writes>>

\* index.ts 214: mkdir(tmpDir, {recursive: true}), no error when it exists
MkdirTmp ==
    /\ cmd = "export" /\ pc = "mkdirTmp"
    /\ \E ok \in BOOLEAN :
        IF ok
        THEN pc' = "mkdirImages" /\ tmpExists' = TRUE /\ UNCHANGED fatal
        ELSE Catch(MkdirTmpError) /\ UNCHANGED tmpExists
    /\ UNCHANGED <<inputVars, tasks, features, imagesExists, images, geojsonFile,
                   zipVars, getVars, reqVars, writes>>

\* index.ts 215-260: mkdir(tmpDir/images); then both maps run synchronously and
\* start every task of every observation before anything is awaited.
MkdirImages ==
    /\ cmd = "export" /\ pc = "mkdirImages"
    /\ \E ok \in BOOLEAN :
        IF ok
        THEN /\ imagesExists' = TRUE
             /\ Continue([o \in 1..Len(observations) |->
                    [a \in 1..Len(observations[o].attachments) |->
                        StartTask(observations[o].attachments[a])]])
             /\ fetches' = [o \in 1..Len(observations) |->
                    [a \in 1..Len(observations[o].attachments) |->
                        LET att == observations[o].attachments[a]
                        IN  IF StartTask(att).st = "fetching"
                            THEN Append(fetches[o][a], TaskRequest(projectId, att))
                            ELSE fetches[o][a]]]
        ELSE /\ Catch(MkdirImagesError)
             /\ UNCHANGED <<imagesExists, tasks, features, fetches>>
    /\ UNCHANGED <<inputVars, tmpExists, images, geojsonFile, zipVars, getVars,
                   obsRequests, writes>>

\* index.ts 236-248: the response arrives and writeFile of the staged file is
\* called; the write itself runs in the background from here.
FetchOk(o, a) ==
    /\ cmd = "export" /\ pc = "downloading"
    /\ IsTask(o, a) /\ tasks[o][a].st = "fetching"
    /\ tasks' = [tasks EXCEPT ![o][a].st = "writing"]
    /\ writes' = [writes EXCEPT ![o][a] = "called"]
    /\ UNCHANGED <<inputVars, pc, fatal, features, fsVars, zipVars, getVars, reqVars>>

\* index.ts 245-248: writes after the writeFile of task (o, a), now in the
\* given phase, has changed its file. Nothing locks the path: every other
\* writeFile that has the same file open and has had it to itself loses that
\* ("raced"): what it has written may be cut or overwritten, what it writes
\* next lands at its own offset among bytes that are not its own.
Touch(o, a, phase) ==
    [i \in DOMAIN writes |->
        [j \in DOMAIN writes[i] |->
            IF <<i, j>> = <<o, a>> THEN phase
            ELSE IF /\ writes[i][j] = "open"
                    /\ Filename(observations[i].attachments[j]) =
                           Filename(observations[o].attachments[a])
                 THEN "raced"
                 ELSE writes[i][j]]]

\* index.ts 245-248, in the background: writeFile opens the file, which creates
\* it or truncates what is there, whoever wrote it.
WriteOpen(o, a) ==
    /\ cmd = "export" /\ pc = "downloading"
    /\ IsTask(o, a) /\ tasks[o][a].st = "writing" /\ writes[o][a] = "called"
    /\ images' = Put(images, Filename(observations[o].attachments[a]), Partial)
    /\ writes' = Touch(o, a, "open")
    /\ UNCHANGED <<inputVars, pc, fatal, tasks, features, tmpExists, imagesExists,
                   geojsonFile, zipVars, getVars, reqVars>>

\* index.ts 245-248, in the background: writeFile writes a body that is longer
\* than one chunk in several writes, one after the other, and other tasks run
\* between them. This is a write that is not the last: alone on the file it
\* leaves a longer prefix of the body; raced, it leaves a prefix (the chunk
\* covers what was there) or bytes that are no prefix of any body.
WriteChunk(o, a) ==
    /\ cmd = "export" /\ pc = "downloading"
    /\ IsTask(o, a) /\ tasks[o][a].st = "writing" /\ writes[o][a] \in {"open", "raced"}
    /\ LET att == observations[o].attachments[a]
       IN  IF writes[o][a] = "open"
           THEN images' = Put(images, Filename(att), Partial)
           ELSE \E content \in {Partial, Mixed} :
                    images' = Put(images, Filename(att), content)
    /\ writes' = Touch(o, a, writes[o][a])
    /\ UNCHANGED <<inputVars, pc, fatal, tasks, features, tmpExists, imagesExists,
                   geojsonFile, zipVars, getVars, reqVars>>

\* index.ts 245-248, in the background: the last write of writeFile. Alone on
\* the file it leaves the body; raced, it leaves the body (the write covers
\* what was there) or bytes of more than one body, or a body with a hole.
WriteData(o, a) ==
    /\ cmd = "export" /\ pc = "downloading"
    /\ IsTask(o, a) /\ tasks[o][a].st = "writing" /\ writes[o][a] \in {"open", "raced"}
    /\ LET att == observations[o].attachments[a]
       IN  \/ images' = Put(images, Filename(att), PhotoData(att))
           \/ writes[o][a] = "raced" /\ images' = Put(images, Filename(att), Mixed)
    /\ writes' = Touch(o, a, "written")
    /\ UNCHANGED <<inputVars, pc, fatal, tasks, features, tmpExists, imagesExists,
                   geojsonFile, zipVars, getVars, reqVars>>

\* Variant of FetchFail: a failed request is issued once more before the task
\* gives up.
FetchFailRetried(o, a) ==
    /\ cmd = "export" /\ pc = "downloading"
    /\ IsTask(o, a) /\ tasks[o][a].st = "fetching"
    /\ IF Len(fetches[o][a]) < 2
       THEN /\ fetches' = [fetches EXCEPT ![o][a] = Append(@, @[1])]
            /\ UNCHANGED <<tasks, features, pc, fatal>>
       ELSE /\ Settle(o, a, Caught(FetchError))
            /\ UNCHANGED fetches
    /\ UNCHANGED <<inputVars, fsVars, zipVars, getVars, obsRequests, writes>>

\* index.ts 236-244, 253-258: the request fails and the task's catch returns null.
FetchFail(o, a) ==
    /\ cmd = "export" /\ pc = "downloading"
    /\ IsTask(o, a) /\ tasks[o][a].st = "fetching"
    /\ Settle(o, a, Caught(FetchError))
    /\ UNCHANGED <<inputVars, fsVars, zipVars, getVars, reqVars, writes>>

\* index.ts 245-252: writeFile, which has written and closed the file, is
\* fulfilled and the task returns its filename.
WriteOk(o, a) ==
    /\ cmd = "export" /\ pc = "downloading"
    /\ IsTask(o, a) /\ tasks[o][a].st = "writing" /\ writes[o][a] = "written"
    /\ Settle(o, a, Succeeded(observations[o].attachments[a]))
    /\ writes' = [writes EXCEPT ![o][a] = "closed"]
    /\ UNCHANGED <<inputVars, fsVars, zipVars, getVars, reqVars>>

\* index.ts 245-248, 253-258: writeFile is rejected and the task's catch
\* returns null. Rejected on the open, the directory entry is as it was;
\* rejected on a write, the bytes that reached the file before stay in it: a
\* prefix of the body when the file was the task's own, a prefix or bytes of
\* several bodies when it was raced; rejected on the close, the file holds
\* what the writes left.
WriteFail(o, a) ==
    /\ cmd = "export" /\ pc = "downloading"
    /\ IsTask(o, a) /\ tasks[o][a].st = "writing"
    /\ writes[o][a] \in {"called", "open", "raced", "written"}
    /\ Settle(o, a, Caught(WriteError))
    /\ \/ /\ writes' = [writes EXCEPT ![o][a] = "closed"]
          /\ UNCHANGED images
       \/ /\ writes[o][a] = "raced"
          /\ \E content \in {Partial, Mixed} :
                 images' = Put(images, Filename(observations[o].attachments[a]), content)
          /\ writes' = Touch(o, a, "closed")
    /\ UNCHANGED <<inputVars, tmpExists, imagesExists, geojsonFile, zipVars, getVars, reqVars>>

\* index.ts 217-218, 278, 284: the document JSON.stringify serialises
GeoJson(fs) ==
    [type |-> "FeatureCollection", features |-> [o \in 1..Len(fs) |-> fs[o][1]]]

\* index.ts 289
OutputPath(output) == IF Truthy(output) THEN output[1] ELSE "comapeo_export.zip"

\* index.ts 280-293: writeFile of the GeoJSON; then readFile of it is called.
\* A failed write leaves no file (the open failed), a truncated one, or
\* (rejected on the close) the whole document.
WriteGeojson ==
    /\ cmd = "export" /\ pc = "writeGeojson"
    /\ \/ /\ geojsonFile' = Some(GeoJson(features))
          /\ pc' = "zip"
          /\ UNCHANGED fatal
       \/ /\ Catch(GeojsonError)
          /\ \/ UNCHANGED geojsonFile
             \/ geojsonFile' = Some(PartialJson)
             \/ geojsonFile' = Some(GeoJson(features))
    /\ UNCHANGED <<inputVars, tasks, features, tmpExists, imagesExists, images,
                   zipVars, getVars, reqVars, writes>>

\* index.ts 290-294: readFile of the GeoJSON is fulfilled, the document goes
\* into the JSZip object and readdir is called; or readFile is rejected.
ZipReadGeojson ==
    /\ cmd = "export" /\ pc = "zip"
    /\ \/ /\ zip' = [zip EXCEPT !.geojson = geojsonFile]
          /\ pc' = "readdir"
          /\ UNCHANGED fatal
       \/ /\ Catch(ZipError)
          /\ UNCHANGED zip
    /\ UNCHANGED <<inputVars, tasks, features, fsVars, imageFiles, outputPath, archive,
                   reported, archiveExists, getVars, reqVars, writes>>

\* index.ts 297-307: readdir(images) is fulfilled; the loop calls readFile of
\* the first entry, or generateAsync when there is none. readdir lists the
\* entries in an order of the file system's choice.
ZipReaddir ==
    /\ cmd = "export" /\ pc = "readdir"
    /\ \/ /\ imageFiles' = DOMAIN images
          /\ pc' = IF DOMAIN images = {} THEN "generate" ELSE "readImages"
          /\ UNCHANGED fatal
       \/ /\ Catch(ZipError)
          /\ UNCHANGED imageFiles
    /\ UNCHANGED <<inputVars, tasks, features, fsVars, zip, outputPath, archive,
                   reported, archiveExists, getVars, reqVars, writes>>

\* index.ts 298-307: readFile of an entry is fulfilled and the entry goes into
\* the JSZip object; the loop goes on to the next entry, or generateAsync is
\* called; or readFile is rejected.
ZipReadImage ==
    /\ cmd = "export" /\ pc = "readImages"
    /\ \/ \E f \in imageFiles :
              /\ zip' = [zip EXCEPT !.images = Put(@, f, images[f])]
              /\ imageFiles' = imageFiles \ {f}
              /\ pc' = IF imageFiles = {f} THEN "generate" ELSE "readImages"
              /\ UNCHANGED fatal
       \/ /\ Catch(ZipError)
          /\ UNCHANGED <<zip, imageFiles>>
    /\ UNCHANGED <<inputVars, tasks, features, fsVars, outputPath, archive, reported,
                   archiveExists, getVars, reqVars, writes>>

\* index.ts 307-309: generateAsync is fulfilled and writeFile(outputPath) is
\* called; or it is rejected.
ZipGenerate ==
    /\ cmd = "export" /\ pc = "generate"
    /\ \/ pc' = "writeZip" /\ UNCHANGED fatal
       \/ Catch(ZipError)
    /\ UNCHANGED <<inputVars, tasks, features, fsVars, zipVars, getVars, reqVars, writes>>

\* index.ts 290-308: the archive is built in 3 + n awaited steps, n the number
\* of entries of tmp_export/images.
BuildZip ==
    \/ ZipReadGeojson
    \/ ZipReaddir
    \/ ZipReadImage
    \/ ZipGenerate

\* Variant of WriteZip: writeFile(outputPath, zipContent) is not awaited, the
\* action goes on to rm while the archive is being written.
WriteZipNotAwaited ==
    /\ cmd = "export" /\ pc = "writeZip"
    /\ \E output \in OutputOptions : outputPath' = Some(OutputPath(output))
    /\ archive' = [written |-> "partial", zip |-> EmptyZip]
    /\ archiveExists' = TRUE
    /\ pc' = "rm"
    /\ UNCHANGED <<inputVars, fatal, tasks, features, fsVars, zip, imageFiles, reported,
                   getVars, reqVars, writes>>

\* index.ts 289, 309: writeFile(outputPath, zipContent). outputPath is a pure
\* function of the -o option, which is used here for the first time, so the
\* option is drawn here. A failed write leaves no file, a truncated one, or
\* (rejected on the close) the whole archive.
WriteZip ==
    /\ cmd = "export" /\ pc = "writeZip"
    /\ \E output \in OutputOptions : outputPath' = Some(OutputPath(output))
    /\ \/ /\ archive' = [written |-> "full", zip |-> zip]
          /\ archiveExists' = TRUE
          /\ pc' = "rm"
          /\ UNCHANGED fatal
       \/ /\ Catch(ArchiveError)
          /\ \/ UNCHANGED <<archive, archiveExists>>
             \/ /\ archive' = [written |-> "partial", zip |-> EmptyZip]
                /\ archiveExists' = TRUE
             \/ /\ archive' = [written |-> "full", zip |-> zip]
                /\ archiveExists' = TRUE
    /\ UNCHANGED <<inputVars, tasks, features, fsVars, zip, imageFiles, reported, getVars,
                   reqVars, writes>>

\* index.ts 311-317: rm(tmpDir, {recursive: true, force: true}), which removes
\* everything inside tmp_export, then the completion message. rm removes entry
\* by entry and is rejected at the first entry it cannot remove: tmp_export is
\* then still there, with any part of its content already gone.
Cleanup ==
    /\ cmd = "export" /\ pc = "rm"
    /\ \/ /\ tmpExists' = FALSE
          /\ imagesExists' = FALSE
          /\ images' = EmptyDir
          /\ geojsonFile' = None
          /\ archiveExists' = (archiveExists /\ ~InTmpDir(outputPath[1]))
          /\ reported' = outputPath
          /\ pc' = "done"
          /\ UNCHANGED fatal
       \/ /\ Catch(RmError)
          /\ tmpExists' = TRUE
          /\ \E kept \in SUBSET DOMAIN images :
                 images' = [f \in kept |-> images[f]]
          /\ imagesExists' \in (IF images' = EmptyDir THEN BOOLEAN ELSE {TRUE})
          /\ geojsonFile' \in {geojsonFile, None}
          /\ archiveExists' \in {archiveExists, archiveExists /\ ~InTmpDir(outputPath[1])}
          /\ UNCHANGED reported
    /\ UNCHANGED <<inputVars, tasks, features, zip, imageFiles, outputPath, archive,
                   getVars, reqVars, writes>>

\* export-geojson, index.ts 154-322
InitExport ==
    /\ cmd = "export"
    /\ observations \in ObsLists
    /\ wd0 \in WorkDirs
    /\ projectId \in ProjectIds
    /\ pc = "validateEnv"
    /\ fatal = None
    /\ tasks = [o \in 1..Len(observations) |->
                   [a \in 1..Len(observations[o].attachments) |->
                       [st |-> "idle", ret |-> Pending, err |-> ""]]]
    /\ features = [o \in 1..Len(observations) |-> None]
    /\ tmpExists = wd0.tmp
    /\ imagesExists = wd0.tmp
    /\ images = [f \in wd0.stale |-> Stale]
    /\ geojsonFile = None
    /\ zip = EmptyZip
    /\ outputPath = None
    /\ archive = NoArchive
    /\ reported = None
    /\ archiveExists = FALSE
    /\ obsRequests = <<>>
    /\ fetches = [o \in 1..Len(observations) |->
                     [a \in 1..Len(observations[o].attachments) |-> <<>>]]
    /\ writes = [o \in 1..Len(observations) |->
                    [a \in 1..Len(observations[o].attachments) |-> "none"]]
    /\ imageFiles = {}
    /\ url = <<>>
    /\ components = None
    /\ request = None
    /\ saved = None
    /\ outputOption = None

Download ==
    \E id \in TaskIds :
        \/ FetchOk(id[1], id[2])
        \/ FetchFail(id[1], id[2])
        \/ WriteOpen(id[1], id[2])
        \/ WriteChunk(id[1], id[2])
        \/ WriteData(id[1], id[2])
        \/ WriteOk(id[1], id[2])
        \/ WriteFail(id[1], id[2])

NextExport ==
    \/ ValidateEnv
    \/ FetchObservations
    \/ MkdirTmp
    \/ MkdirImages
    \/ Download
    \/ WriteGeojson
    \/ BuildZip
    \/ WriteZip
    \/ Cleanup

Spec == InitExport /\ [][NextExport]_vars

\* ------------------------------------------------------------ get-attachment

\* Segments the --url option is made of.
Segs == {"", "projects", "attachments", "photo"}

\* The strings of at most MaxSegs segments (a string has at least one segment).
UrlStrings == UNION {[1..k -> Segs] : k \in 1..MaxSegs}

\* --variant and -o options of get-attachment.
VariantOptions == {None, Some("preview")}
FilenameOptions == {None, Some(""), Some("custom.png")}

\* index.ts 350
Variant(variant) == IF Truthy(variant) THEN "?variant=" \o variant[1] ELSE ""

exportVars == <<observations, wd0, projectId, tasks, features, fsVars, zipVars, reqVars,
                writes>>

\* index.ts 342-360: validateEnv, getUrlComponents and the request, which run
\* without an await between them.
GetStart ==
    /\ cmd = "get" /\ pc = "validateEnv"
    /\ \E configured \in BOOLEAN, variant \in VariantOptions :
        IF validateEnv(configured) # None
        THEN Catch(validateEnv(configured)[1]) /\ UNCHANGED <<components, request>>
        ELSE IF getUrlComponents(url) = None
        THEN Catch(InvalidUrl) /\ UNCHANGED <<components, request>>
        ELSE LET c == getUrlComponents(url)[1]
             IN  /\ components' = Some(c)
                 /\ request' = Some(AttachmentPath(c.projectId, c.driveId, c.type,
                                                   c.name, Variant(variant)))
                 /\ pc' = "download"
                 /\ UNCHANGED fatal
    /\ UNCHANGED <<cmd, url, saved, outputOption, exportVars>>

\* index.ts 352-360: the response arrives, or the request fails.
GetResponse ==
    /\ cmd = "get" /\ pc = "download"
    /\ \/ pc' = "write" /\ UNCHANGED fatal
       \/ Catch(FetchError)
    /\ UNCHANGED <<cmd, url, components, request, saved, outputOption, exportVars>>

\* index.ts 362-364: the filename is derived (the -o option is used here for
\* the first time, so it is drawn here), the file is written and its name
\* printed. A failed write leaves no file, a truncated one, or (rejected on
\* the close) the whole body.
GetWrite ==
    /\ cmd = "get" /\ pc = "write"
    /\ \E out \in FilenameOptions :
        LET c == components[1]
            filename == getOutputFilename(c.name, c.type, out)
        IN  /\ outputOption' = Some(out)
            /\ \/ /\ saved' = Some([filename |-> filename,
                                    data |-> Bytes(c.driveId, c.type, c.name)])
                  /\ pc' = "done"
                  /\ UNCHANGED fatal
               \/ /\ Catch(WriteError)
                  /\ \/ UNCHANGED saved
                     \/ saved' = Some([filename |-> filename, data |-> Partial])
                     \/ saved' = Some([filename |-> filename,
                                       data |-> Bytes(c.driveId, c.type, c.name)])
    /\ UNCHANGED <<cmd, url, components, request, exportVars>>

\* get-attachment, index.ts 334-369
InitGet ==
    /\ cmd = "get"
    /\ url \in UrlStrings
    /\ pc = "validateEnv"
    /\ fatal = None
    /\ components = None
    /\ request = None
    /\ saved = None
    /\ outputOption = None
    /\ observations = <<>>
    /\ projectId = ""
    /\ obsRequests = <<>>
    /\ fetches = <<>>
    /\ writes = <<>>
    /\ imageFiles = {}
    /\ archiveExists = FALSE
    /\ wd0 = [tmp |-> FALSE, stale |-> {}]
    /\ tasks = <<>>
    /\ features = <<>>
    /\ tmpExists = FALSE
    /\ imagesExists = FALSE
    /\ images = EmptyDir
    /\ geojsonFile = None
    /\ zip = EmptyZip
    /\ outputPath = None
    /\ archive = NoArchive
    /\ reported = None

NextGet ==
    \/ GetStart
    \/ GetResponse
    \/ GetWrite

SpecGet == InitGet /\ [][NextGet]_vars

\* ------------------------------------------------------------ properties

Export == cmd = "export"
IsPending(t) == t.st \in {"fetching", "writing"}
AllTasks == {id \in TaskIds : IsTask(id[1], id[2])}
TaskOf(id) == tasks[id[1]][id[2]]
AttOf(id) == observations[id[1]].attachments[id[2]]
AfterJoin == {"writeGeojson", "zip", "readdir", "readImages", "generate", "writeZip", "rm",
              "done"}
AfterJoinErrors == {GeojsonError, ZipError, ArchiveError, RmError}

\* The entries of a JSZip object, index.ts 293-305.
Entries(z) ==
    (IF z.geojson # None THEN {"comapeo_data.geojson"} ELSE {}) \cup
    {"images/" \o f : f \in DOMAIN z.images}

\* The filenames of the attachments 1..a of observation o whose download
\* succeeded (request answered and staged file written), in attachment order.
RECURSIVE DownloadedNames(_, _)
DownloadedNames(o, a) ==
    IF a = 0 THEN <<>>
    ELSE DownloadedNames(o, a - 1) \o
         (IF tasks[o][a].st = "done"
          THEN <<Filename(observations[o].attachments[a])>> ELSE <<>>)

\* Every copy of the GeoJSON document the run holds or wrote.
Documents ==
    {d[1] : d \in {x \in {geojsonFile, zip.geojson, archive.zip.geojson} :
                      x # None /\ x # Some(PartialJson)}}

\* C1: a failed attachment download (request or staging write) never aborts
\* the export: the error the run ends on is never a download error, once every
\* task has settled the run is past the join whatever failed, and a run that
\* completes has written the GeoJSON into the archive at the output path and
\* reports that path.
C1_DownloadFailureDoesNotAbort ==
    Export =>
        /\ pc = "failed" => fatal # None /\ fatal[1] \notin {FetchError, WriteError}
        /\ (/\ \E id \in AllTasks : TaskOf(id).st = "failed"
            /\ \A id \in AllTasks : Settled(TaskOf(id)))
               => pc \in AfterJoin \/ (pc = "failed" /\ fatal[1] \in AfterJoinErrors)
        /\ pc = "done" =>
               /\ archive.written = "full"
               /\ archive.zip.geojson = Some(GeoJson(features))
               /\ outputPath # None
               /\ reported = outputPath

C1_Witness ==
    /\ Export /\ pc = "done"
    /\ \E id \in AllTasks : TaskOf(id).err = FetchError
    /\ \E id \in AllTasks : TaskOf(id).err = WriteError

\* C2: the $photos list of every Feature, as assembled and as written, is the
\* sequence of filenames of that observation's successfully downloaded
\* attachments in attachment order.
C2_PhotosAreTheSuccesses ==
    Export =>
        /\ \A o \in 1..Len(features) :
               features[o] # None =>
                   features[o][1].properties.photos =
                       DownloadedNames(o, Len(observations[o].attachments))
        /\ \A d \in Documents : \A o \in 1..Len(d.features) :
               d.features[o].properties.photos =
                   DownloadedNames(o, Len(observations[o].attachments))

C2_Witness ==
    /\ Export /\ pc = "done"
    /\ \E o \in 1..Len(observations) :
           /\ Len(observations[o].attachments) = 2
           /\ tasks[o][1].st = "failed"
           /\ tasks[o][2].st = "done"
           /\ Len(archive.zip.geojson[1].features[o].properties.photos) = 1

\* C3 (as claimed): a broken attachment reference, its URL not of the expected
\* shape, only drops that attachment: the export never ends on the URL error.
C3_BrokenReferenceIsolated ==
    Export /\ (\E id \in AllTasks : getUrlComponents(AttOf(id).url) = None)
        => ~(pc = "failed" /\ fatal = Some(InvalidUrl))

\* The run created (or found and kept) tmp_export: mkdir(tmpDir) has returned.
ScratchCreated ==
    \/ pc \in {"mkdirImages", "downloading"} \cup AfterJoin
    \/ pc = "failed" /\ fatal[1] \notin {EnvError, ObsError, MkdirTmpError}

\* C4 (as claimed): once tmp_export has been created, every way the run ends
\* leaves it removed.
C4_ScratchRemovedOnEveryExit ==
    Export /\ pc \in {"done", "failed"} /\ ScratchCreated => ~tmpExists

\* C5 (as claimed): a failure to remove tmp_export is only logged: the export
\* still completes and reports the archive path.
C5_CleanupFailureNotEscalated ==
    Export /\ fatal = Some(RmError) => pc = "done" /\ reported = outputPath

\* C6: when the observation-list request fails the run ends in the error
\* outcome with the working directory as it found it: no directory created,
\* no task started, no GeoJSON, no archive, no completion message.
C6_ObservationFailureTouchesNothing ==
    Export /\ fatal = Some(ObsError) =>
        /\ pc = "failed"
        /\ tmpExists = wd0.tmp
        /\ imagesExists = wd0.tmp
        /\ images = [f \in wd0.stale |-> Stale]
        /\ geojsonFile = None
        /\ archive = NoArchive
        /\ reported = None
        /\ \A id \in AllTasks : TaskOf(id).st = "idle"

C6_Witness ==
    /\ Export /\ pc = "failed" /\ fatal = Some(ObsError)
    /\ ~wd0.tmp /\ ~tmpExists
    /\ AllTasks # {}

\* C7 (as claimed): control leaves the join over the download tasks, to write
\* the GeoJSON and the archive or to the error handler, only when no task is
\* still pending.
C7_JoinWaitsForAll ==
    Export /\ pc # "downloading" => \A id \in AllTasks : ~IsPending(TaskOf(id))

\* C8 (as claimed): the archive of a completed export holds comapeo_data.geojson
\* and one images/ entry per filename downloaded in this run, nothing else.
C8_ArchiveEntriesExact ==
    Export /\ pc = "done" =>
        Entries(archive.zip) =
            {"comapeo_data.geojson"} \cup
            {"images/" \o Filename(AttOf(id)) : id \in {t \in AllTasks : TaskOf(t).st = "done"}}

\* C9: every copy of the FeatureCollection has one Feature per observation, in
\* the order of the list, with the observation's docId as id and a Point at
\* [lon, lat]; for an empty list the features list is empty.
C9_OneFeaturePerObservation ==
    Export =>
        \A d \in Documents :
            /\ d.type = "FeatureCollection"
            /\ Len(d.features) = Len(observations)
            /\ \A o \in 1..Len(observations) :
                   /\ d.features[o].type = "Feature"
                   /\ d.features[o].id = observations[o].docId
                   /\ d.features[o].geometry.type = "Point"
                   /\ d.features[o].geometry.coordinates =
                          <<observations[o].lon, observations[o].lat>>

C9_Witness ==
    /\ Export /\ pc = "done"
    /\ Len(observations) = 2
    /\ Len(archive.zip.geojson[1].features) = 2

\* A URL of the shape .../projects/{projectId}/attachments/{driveId}/{type}/{name}:
\* its last six segments, after at least one "/", with the four parts non-empty.
HasShape(u) ==
    /\ Len(u) >= 7
    /\ LET t == SubSeq(u, Len(u) - 5, Len(u))
       IN  /\ t[1] = "projects" /\ t[3] = "attachments"
           /\ t[2] # "" /\ t[4] # "" /\ t[5] # "" /\ t[6] # ""

ShapeParts(u) ==
    [projectId |-> u[Len(u) - 4], driveId |-> u[Len(u) - 2],
     type |-> u[Len(u) - 1], name |-> u[Len(u)]]

\* C10: getUrlComponents returns the four embedded components for every URL of
\* the shape, and throws for every other string: get-attachment goes on to the
\* download exactly with those components, and ends on the URL error otherwise.
C10_UrlResolverExact ==
    cmd = "get" =>
        /\ HasShape(url) => getUrlComponents(url) = Some(ShapeParts(url))
        /\ ~HasShape(url) => getUrlComponents(url) = None
        /\ components # None => HasShape(url) /\ components = Some(ShapeParts(url))
        /\ pc \in {"download", "write", "done"} => components # None
        /\ fatal = Some(InvalidUrl) => ~HasShape(url) /\ components = None /\ request = None

C10_Witness ==
    /\ cmd = "get" /\ pc = "download"
    /\ Len(url) = MaxSegs
    /\ components = Some([projectId |-> "photo", driveId |-> "projects",
                          type |-> "photo", name |-> "attachments"])

\* The filename rule: a non-empty explicit output as it is, otherwise the
\* name with .jpg for a photo and .mp3 for every other type.
FilenameRule(name, type, out) ==
    IF out # None /\ out[1] # "" THEN out[1]
    ELSE IF type = "photo" THEN name \o ".jpg" ELSE name \o ".mp3"

SampleNames == {"rec", "n1", ""}
SampleTypes == {"photo", "audio", "video", ""}

\* C11 (as claimed): whenever get-attachment is given an explicit output, the
\* file it writes is named by that output, unchanged.
C11_ExplicitOutputAlwaysWins ==
    cmd = "get" /\ saved # None /\ outputOption # None /\ outputOption[1] # None
        => saved[1].filename = outputOption[1][1]

\* C11 (amended): where get-attachment derives the filename, getOutputFilename
\* follows the filename rule for every name, type and output, where only a
\* non-empty explicit output wins and the empty string counts as no output;
\* the file get-attachment writes is named by the rule applied to the URL's
\* name and type and the -o option, and the export names each staged file by
\* the same rule without an output.
C11_FilenameRule ==
    cmd = "get" =>
        /\ pc = "write" =>
               \A name \in SampleNames, type \in SampleTypes, out \in FilenameOptions :
                   getOutputFilename(name, type, out) = FilenameRule(name, type, out)
        /\ saved # None =>
               /\ outputOption # None
               /\ saved[1].filename =
                      FilenameRule(components[1].name, components[1].type, outputOption[1])
        /\ \A u \in UrlPool :
               pc = "write" /\ getUrlComponents(u) # None =>
                   Filename([url |-> u]) =
                       FilenameRule(getUrlComponents(u)[1].name,
                                    getUrlComponents(u)[1].type, None)

C11_Witness ==
    /\ cmd = "get" /\ pc = "done"
    /\ outputOption = Some(Some(""))
    /\ components[1].type = "attachments"
    /\ saved[1].filename = "photo.mp3"

\* The download outcome of task id: its attachment was fetched and staged, or not.
Outcome(id) == TaskOf(id).st = "done"

\* The GeoJSON document as a function of the observation list and the download
\* outcomes alone.
RECURSIVE PhotosByOutcome(_, _)
PhotosByOutcome(o, a) ==
    IF a = 0 THEN <<>>
    ELSE PhotosByOutcome(o, a - 1) \o
         (IF Outcome(<<o, a>>)
          THEN LET c == getUrlComponents(observations[o].attachments[a].url)[1]
               IN  <<c.name \o (IF c.type = "photo" THEN ".jpg" ELSE ".mp3")>>
          ELSE <<>>)

GeoJsonByOutcome ==
    [type |-> "FeatureCollection",
     features |->
        [o \in 1..Len(observations) |->
            [type |-> "Feature",
             geometry |-> [type |-> "Point",
                           coordinates |-> <<observations[o].lon, observations[o].lat>>],
             id |-> observations[o].docId,
             properties |->
                [created |-> observations[o].createdAt,
                 modified |-> observations[o].updatedAt,
                 version |-> observations[o].docId \o "@1",
                 photos |-> PhotosByOutcome(o, Len(observations[o].attachments))]]]]

\* C12: in a run that starts from an empty working directory, every copy of
\* the GeoJSON document (staged, in the JSZip object, in the archive) is the
\* value of one function of the observation list and the per-attachment
\* download outcomes, so two runs that agree on these produce the same
\* document whatever the order their downloads start and complete in.
C12_GeoJsonDeterminedByOutcomes ==
    Export /\ ~wd0.tmp => \A d \in Documents : d = GeoJsonByOutcome

C12_Witness ==
    /\ Export /\ ~wd0.tmp /\ pc = "done"
    /\ Len(observations) = 2
    /\ Len(observations[1].attachments) = 1 /\ Len(observations[2].attachments) = 1
    /\ tasks[1][1].st = "failed" /\ tasks[2][1].st = "done"
    /\ archive.zip.geojson = Some(GeoJsonByOutcome)

\* The task of id has issued its request (it is past its synchronous part).
Requested(id) == TaskOf(id).st \in {"fetching", "writing", "done", "failed"}

\* C13: nothing is retried. The observation list is requested once when the
\* run starts (never before, never again, whether the request fails or not),
\* every download task issues exactly one request when it starts and none
\* after, also when that request has failed, and a task that has failed stays
\* failed.
C13_NoRetry ==
    /\ [](Export =>
            /\ Len(obsRequests) = (IF pc = "validateEnv" \/ fatal = Some(EnvError)
                                   THEN 0 ELSE 1)
            /\ \A id \in AllTasks :
                   Len(fetches[id[1]][id[2]]) = (IF Requested(id) THEN 1 ELSE 0))
    /\ [][Export =>
            \A id \in AllTasks :
                TaskOf(id).st = "failed" =>
                    /\ tasks'[id[1]][id[2]] = TaskOf(id)
                    /\ fetches'[id[1]][id[2]] = fetches[id[1]][id[2]]]_vars

C13_Witness ==
    /\ Export /\ pc = "done"
    /\ Len(obsRequests) = 1
    /\ \E id \in AllTasks :
           /\ TaskOf(id).err = FetchError
           /\ Len(fetches[id[1]][id[2]]) = 1
    /\ \E id \in AllTasks : TaskOf(id).st = "done"

\* The tasks whose writeFile into tmp_export/images is in progress.
Writing == {id \in AllTasks : TaskOf(id).st = "writing"}

\* The tasks that have called writeFile into tmp_export/images.
Writers == {id \in AllTasks : TaskOf(id).st \in {"writing", "done"} \/ TaskOf(id).err = WriteError}

\* C14 (as claimed): the scratch workspace is written by sequential steps
\* only: never are two writes into it in progress at once, and no staged file
\* is written by more than one task.
C14_ScratchWritesSequential ==
    Export =>
        /\ Cardinality(Writing) <= 1
        /\ \A t1 \in Writers, t2 \in Writers :
               t1 # t2 => Filename(AttOf(t1)) # Filename(AttOf(t2))

\* C15 (as claimed): whenever the export has reported completion, tmp_export
\* no longer exists and the archive file exists at the reported path.
C15_CompletionMeansCleanAndArchived ==
    Export /\ reported # None =>
        /\ ~tmpExists
        /\ reported = outputPath
        /\ archive.written = "full"
        /\ archiveExists

\* The media type of the attachment of task id, as its URL names it.
TypeOf(id) == getUrlComponents(AttOf(id).url)[1].type

\* C16 (as claimed): every entry of a $photos list, in a Feature as assembled
\* and in every copy of the document, is the filename of a successfully
\* downloaded attachment of type photo of that observation; an attachment of
\* another type is never listed.
C16_PhotosListsOnlyPhotos ==
    Export =>
        LET PhotoNames(o) ==
                {Filename(AttOf(id)) :
                    id \in {t \in AllTasks : /\ t[1] = o
                                             /\ TaskOf(t).st = "done"
                                             /\ TypeOf(t) = "photo"}}
            Listed(photos) == {photos[i] : i \in 1..Len(photos)}
        IN  /\ \A o \in 1..Len(features) :
                   features[o] # None =>
                       Listed(features[o][1].properties.photos) \subseteq PhotoNames(o)
            /\ \A d \in Documents : \A o \in 1..Len(d.features) :
                   Listed(d.features[o].properties.photos) \subseteq PhotoNames(o)

\* Both mkdir calls of the run have returned.
DirsCreated ==
    \/ pc \in {"downloading"} \cup AfterJoin
    \/ pc = "failed" /\ fatal[1] \notin {EnvError, ObsError, MkdirTmpError, MkdirImagesError}

\* C17: the steps of an export run are ordered. (a) A write into the scratch
\* workspace (a staged attachment, the GeoJSON) starts, is in progress and
\* lands only after both mkdir calls have returned, with both directories in
\* place. (b) The archive step reads the workspace only when every attachment
\* write has ended (its task settled, its writeFile closed) and the GeoJSON is
\* written, so the JSZip object is filled from the final workspace and, once
\* built, holds all of it. (c) tmp_export is removed only when the archive
\* file is fully written. (d) The completion message is printed only after
\* the removal, by the step that removed it.
C17_StepsOrdered ==
    /\ [](Export =>
            /\ (Writing # {} \/ pc = "writeGeojson") =>
                   DirsCreated /\ tmpExists /\ imagesExists
            /\ (\E id \in AllTasks : Requested(id)) => DirsCreated
            /\ pc \in AfterJoin => \A id \in AllTasks : Settled(TaskOf(id))
            /\ zip # EmptyZip => zip.geojson # None
            /\ pc \in {"writeZip", "rm", "done"} =>
                   /\ Documents # {}
                   /\ zip.geojson = Some(GeoJson(features))
                   /\ pc # "done" => zip = [geojson |-> geojsonFile, images |-> images]
            /\ reported # None => pc = "done" /\ ~tmpExists /\ archive.written = "full")
    /\ [][Export =>
            /\ (images' # images /\ pc # "rm") \/ geojsonFile' \notin {geojsonFile, None}
                   => DirsCreated /\ tmpExists /\ imagesExists
            /\ zip' # zip =>
                   /\ \A id \in AllTasks : Settled(TaskOf(id))
                   /\ \A id \in AllTasks : writes[id[1]][id[2]] \in {"none", "closed"}
                   /\ geojsonFile = Some(GeoJson(features))
                   /\ zip'.geojson = geojsonFile
                   /\ \A f \in DOMAIN zip'.images :
                          f \in DOMAIN images /\ zip'.images[f] = images[f]
            /\ tmpExists /\ ~tmpExists' => archive.written = "full" /\ pc = "rm"
            /\ reported' # reported => ~tmpExists' /\ pc = "rm"]_vars

C17_Witness ==
    /\ Export /\ pc = "done" /\ reported # None
    /\ wd0.tmp /\ ~tmpExists
    /\ Cardinality({id \in AllTasks : TaskOf(id).st = "done"}) = 2
    /\ DOMAIN archive.zip.images # {}

\* C18 (as claimed): the request of every download task targets
\* /projects/{projectId}/attachments/{driveId}/{type}/{name} with the four
\* components of the attachment's own URL and no variant.
C18_RequestFromUrlComponents ==
    Export =>
        \A id \in AllTasks :
            Requested(id) =>
                LET c == getUrlComponents(AttOf(id).url)[1]
                IN  fetches[id[1]][id[2]] =
                        <<AttachmentPath(c.projectId, c.driveId, c.type, c.name, "")>>

\* C19 (as claimed): in the archive a completed export wrote, the entry
\* images/<filename> of every successfully downloaded attachment holds the
\* bytes fetched for that attachment.
C19_EntryHoldsItsAttachment ==
    Export /\ pc = "done" =>
        \A id \in AllTasks :
            TaskOf(id).st = "done" =>
                /\ Filename(AttOf(id)) \in DOMAIN archive.zip.images
                /\ archive.zip.images[Filename(AttOf(id))] = PhotoData(AttOf(id))

====
